---- MODULE Spec2Model ----
(***************************************************************************)
(* Imperial Valley heat-death news scraper (imperial_valley_scraper.py).   *)
(*                                                                         *)
(* Two parts are modelled:                                                 *)
(*   - the keyword matching engine: calculate_heat_score and               *)
(*     classify_relevance, as operators over character strings, with the   *)
(*     regular-expression subset the keyword tables use (literals, \s+,    *)
(*     .* and (?:a|b) groups, matched with re's backtracking order);       *)
(*   - the scraping workflow: main, scrape_source, extract_article_links,  *)
(*     scrape_article_newspaper4k, save_article and the SQLite tables.     *)
(***************************************************************************)
EXTENDS Integers, Sequences, FiniteSets, TLC

VARIABLES
    \* ---- a direct call of the matching engine (SpecScorer)
    mode,            \* "score" | "classify" | "scrape": which entry point runs
    in_text,         \* argument text of calculate_heat_score
    in_language,     \* argument language of calculate_heat_score
    result,          \* what calculate_heat_score returned (NoResult before)
    score_in,        \* argument of classify_relevance, in 1/ScoreScale units
    label,           \* what classify_relevance returned ("" before)
    \* ---- the scraping workflow (Spec)
    pc,              \* position in main / scrape_source
    src,             \* index into NEWS_SOURCES of the source being scraped
    sec,             \* index of the next section in extract_article_links
    all_links,       \* extract_article_links: all_links
    article_urls,    \* scrape_source: article_urls
    idx,             \* scrape_source: index of the next url of article_urls
    stats,           \* scrape_source: stats
    articles,        \* table articles (rows in insertion order)
    keyword_matches, \* table keyword_matches
    scrape_sessions, \* table scrape_sessions
    error_log,       \* table error_log
    last_insert_rowid, \* sqlite connection: rowid of the last row inserted
    netlog,          \* history: "request" and "sleep" events in program order
    last,            \* history: the last article scored by scrape_source
    web              \* environment: what the network may still serve

scorerVars == <<mode, in_text, in_language, result, score_in, label>>
scraperVars == <<pc, src, sec, all_links, article_urls, idx, stats, articles,
                 keyword_matches, scrape_sessions, error_log, last_insert_rowid,
                 netlog, last, web>>
vars == <<mode, in_text, in_language, result, score_in, label,
          pc, src, sec, all_links, article_urls, idx, stats, articles,
          keyword_matches, scrape_sessions, error_log, last_insert_rowid,
          netlog, last, web>>

----------------------------------------------------------------------------
(* Bounds of the model                                                     *)

\* A scored text is a concatenation of at most MaxFragments fragments.
MaxFragments == 2
\* A float score is a whole number of 1/ScoreScale steps.
ScoreScale == 1000
\* Section pages with article links the network serves in one run of main.
MaxServed == 2
\* Requests that fail in one run of main.
MaxFailures == 1
\* Story links on each section page of a large site.
LinksPerPage == 51

----------------------------------------------------------------------------
(* Configuration                                                           *)

KEYWORDS_EN ==
    << [name |-> "primary_death", weight |-> 10, keywords |-> <<
          "heat\\s+death", "heat-related\\s+death", "heat-caused\\s+death",
          "heat\\s+fatality", "died\\s+from\\s+heat", "died\\s+of\\s+heat",
          "heat\\s+exposure\\s+death", "hyperthermia\\s+death",
          "heat\\s+stroke\\s+death", "died\\s+from\\s+hyperthermia",
          "succumbed\\s+to\\s+heat", "heat\\s+related\\s+fatality",
          "heat\\s+victim", "heat\\s+casualty" >>],
       [name |-> "heat_illness", weight |-> 5, keywords |-> <<
          "heat\\s+stroke", "heat\\s+exhaustion", "hyperthermia",
          "heat\\s+illness", "heat\\s+related\\s+illness", "heat\\s+emergency",
          "heat-associated", "severe\\s+dehydration" >>],
       [name |-> "contextual_death", weight |-> 7, keywords |-> <<
          "found\\s+dead.*heat", "body\\s+found.*heat",
          "unresponsive.*heat", "pronounced\\s+dead.*heat",
          "died\\s+after.*heat\\s+wave", "succumbed.*heat",
          "extreme\\s+heat.*died" >>],
       [name |-> "environmental", weight |-> 2, keywords |-> <<
          "excessive\\s+heat\\s+warning", "heat\\s+wave", "extreme\\s+heat",
          "triple-digit\\s+temperature", "record\\s+heat", "blistering\\s+heat",
          "record\\s+breaking\\s+heat", "dangerous\\s+heat", "heat\\s+advisory",
          "scorching\\s+(?:heat|temperature)", "heat\\s+claims\\s+lives",
          "deadly\\s+heat", "heat\\s+turns\\s+deadly" >>],
       [name |-> "location_specific", weight |-> 8, keywords |-> <<
          "died\\s+in\\s+vehicle.*heat", "found\\s+in\\s+car.*heat",
          "outdoor\\s+death.*heat", "homeless.*heat\\s+death",
          "farm\\s+worker.*heat\\s+death", "agricultural\\s+worker.*heat",
          "(?:air\\s+conditioning|A/C)\\s+failure.*death",
          "no\\s+(?:A/C|air\\s+conditioning).*death",
          "mobile\\s+home.*heat\\s+death" >>],
       [name |-> "medical_coroner", weight |-> 3, keywords |-> <<
          "coroner.*heat", "medical\\s+examiner.*heat", "autopsy.*heat",
          "cause\\s+of\\s+death.*heat", "heat\\s+related\\s+cause",
          "environmental\\s+heat.*death", "heat\\s+as\\s+contributing\\s+factor" >>],
       [name |-> "exclusions", weight |-> -100, keywords |-> <<
          "heated\\s+argument", "heated\\s+debate", "heat\\s+of\\s+the\\s+moment",
          "preheat", "heat\\s+pump", "heating\\s+system" >>] >>

KEYWORDS_ES ==
    << [name |-> "primary_death", weight |-> 10, keywords |-> <<
          "muerte\\s+por\\s+calor", "falleció\\s+por\\s+calor",
          "murió\\s+por\\s+calor", "sucumbió\\s+por\\s+calor",
          "falleció\\s+por\\s+el\\s+calor", "hipertermia\\s+fatal" >>],
       [name |-> "heat_illness", weight |-> 5, keywords |-> <<
          "golpe\\s+de\\s+calor", "insolación", "hipertermia",
          "deshidratación\\s+severa", "enfermedad\\s+por\\s+calor" >>],
       [name |-> "environmental", weight |-> 2, keywords |-> <<
          "ola\\s+de\\s+calor", "calor\\s+extremo", "temperatura\\s+récord",
          "aviso\\s+de\\s+calor", "calor\\s+peligroso", "calor\\s+mortal" >>] >>

\* keywords_dict[name] of a table whose insertion order is the sequence's
DictGet(keywords_dict, name) ==
    keywords_dict[CHOOSE i \in 1..Len(keywords_dict) : keywords_dict[i].name = name]

----------------------------------------------------------------------------
(* str.lower and the re module, on strings of characters                   *)

UPPERCASE == "ABCDEFGHIJKLMNOPQRSTUVWXYZÁÉÍÓÚÑ"
LOWERCASE == "abcdefghijklmnopqrstuvwxyzáéíóúñ"

Char(s, i) == SubSeq(s, i, i)

LowerOf ==
    [c \in {Char(UPPERCASE, i) : i \in 1..Len(UPPERCASE)} |->
        Char(LOWERCASE, CHOOSE i \in 1..Len(UPPERCASE) : Char(UPPERCASE, i) = c)]

LowerChar(c) == IF c \in DOMAIN LowerOf THEN LowerOf[c] ELSE c

RECURSIVE lower(_)
\* str.lower()
lower(s) ==
    IF Len(s) = 0 THEN ""
    ELSE IF Len(s) = 1 THEN LowerChar(s)
    ELSE lower(SubSeq(s, 1, Len(s) \div 2)) \o lower(SubSeq(s, Len(s) \div 2 + 1, Len(s)))

\* \s of a str pattern (the ASCII members)
Whitespace == {" ", "\t", "\n", "\r", "\f"}

Min(S) == CHOOSE x \in S : \A y \in S : x <= y
Max(S) == CHOOSE x \in S : \A y \in S : x >= y

\* Whether the literal lit stands in p at position i
LooksAt(p, i, lit) ==
    i + Len(lit) - 1 <= Len(p) /\ SubSeq(p, i, i + Len(lit) - 1) = lit

\* The first position at or after i of p that holds one of the characters
\* of the set stops, Len(p) + 1 when there is none
FindAny(p, stops, i) ==
    Min({k \in i..Len(p) : Char(p, k) \in stops} \cup {Len(p) + 1})

\* The alternatives of a (?:a|b|...) group body, left to right
RECURSIVE Alternatives(_)
Alternatives(body) ==
    LET bar == FindAny(body, {"|"}, 1)
    IN  IF bar > Len(body) THEN <<body>>
        ELSE <<SubSeq(body, 1, bar - 1)>>
                 \o Alternatives(SubSeq(body, bar + 1, Len(body)))

\* re.compile(pattern, re.IGNORECASE) for the syntax the keyword tables
\* use, from position i of the pattern on: a sequence of
\*   literal  a run of ordinary characters, compared ignoring case
\*   space+   \s+
\*   any*     .*
\*   branch   (?:a|b), each alternative compiled
RECURSIVE re_compile_from(_, _)
re_compile_from(p, i) ==
    IF i > Len(p) THEN <<>>
    ELSE IF LooksAt(p, i, "\\s+")
        THEN <<[op |-> "space+"]>> \o re_compile_from(p, i + 3)
    ELSE IF LooksAt(p, i, ".*")
        THEN <<[op |-> "any*"]>> \o re_compile_from(p, i + 2)
    ELSE IF LooksAt(p, i, "(?:")
        THEN LET close == FindAny(p, {")"}, i)
                 alts == Alternatives(SubSeq(p, i + 3, close - 1))
             IN  <<[op |-> "branch",
                    alts |-> [n \in 1..Len(alts) |-> re_compile_from(alts[n], 1)]]>>
                     \o re_compile_from(p, close + 1)
    ELSE LET stop == FindAny(p, {"\\", ".", "("}, i)
         IN  <<[op |-> "literal", s |-> lower(SubSeq(p, i, stop - 1))]>>
                 \o re_compile_from(p, stop)

\* Every pattern of the keyword tables
AllPatterns ==
    UNION {{KEYWORDS_EN[c].keywords[k] : k \in 1..Len(KEYWORDS_EN[c].keywords)} :
              c \in 1..Len(KEYWORDS_EN)}
    \cup UNION {{KEYWORDS_ES[c].keywords[k] : k \in 1..Len(KEYWORDS_ES[c].keywords)} :
                   c \in 1..Len(KEYWORDS_ES)}

\* The re module's cache of compiled patterns
re_cache == [p \in AllPatterns |-> re_compile_from(p, 1)]

re_compile(pattern) ==
    IF pattern \in AllPatterns THEN re_cache[pattern] ELSE re_compile_from(pattern, 1)

\* Number of consecutive characters of t from position j on that \s matches
SpaceRun(t, j) ==
    FindAny(t, {Char(t, k) : k \in j..Len(t)} \ Whitespace, j) - j

\* Number of consecutive characters of t from position j on that . matches
DotRun(t, j) == FindAny(t, {"\n"}, j) - j

NoMatch == -1

RECURSIVE MatchHere(_, _, _, _)
\* One match attempt of the compiled pattern code, from its k-th item on,
\* against text t from position j. Returns the position after the match
\* that re's backtracking finds first, or NoMatch:
\*   - a greedy repetition takes the longest run that lets the rest match;
\*   - a branch takes the first alternative that lets the rest match.
MatchHere(code, k, t, j) ==
    IF k > Len(code) THEN j
    ELSE IF code[k].op = "literal"
        THEN LET n == Len(code[k].s)
             IN  IF /\ j + n - 1 <= Len(t)
                    /\ LowerChar(Char(t, j)) = Char(code[k].s, 1)
                    /\ lower(SubSeq(t, j, j + n - 1)) = code[k].s
                 THEN MatchHere(code, k + 1, t, j + n)
                 ELSE NoMatch
    ELSE IF code[k].op \in {"space+", "any*"}
        THEN LET least == IF code[k].op = "space+" THEN 1 ELSE 0
                 most == IF code[k].op = "space+" THEN SpaceRun(t, j) ELSE DotRun(t, j)
                 ok == {n \in least..most : MatchHere(code, k + 1, t, j + n) # NoMatch}
             IN  IF ok = {} THEN NoMatch
                 ELSE MatchHere(code, k + 1, t, j + Max(ok))
    ELSE LET rest == SubSeq(code, k + 1, Len(code))
             ok == {n \in 1..Len(code[k].alts) :
                       MatchHere(code[k].alts[n] \o rest, 1, t, j) # NoMatch}
         IN  IF ok = {} THEN NoMatch
             ELSE MatchHere(code[k].alts[Min(ok)] \o rest, 1, t, j)

\* The start positions of string at which the compiled pattern matches.
\* A pattern that begins with a literal is tried only where the text holds
\* the literal's first character (the prefix scan of the re engine).
MatchStarts(code, string) ==
    IF code # <<>> /\ code[1].op = "literal"
    THEN {pos \in {q \in 1..Len(string) :
                      LowerChar(Char(string, q)) = Char(code[1].s, 1)} :
             MatchHere(code, 1, string, pos) # NoMatch}
    ELSE {pos \in 1..(Len(string) + 1) : MatchHere(code, 1, string, pos) # NoMatch}

\* re.search(pattern, string, re.IGNORECASE) is not None
re_search(pattern, string) == MatchStarts(re_compile(pattern), string) # {}

RECURSIVE re_scan(_, _, _, _)
\* The scan of finditer from position pos on: the leftmost match, then the
\* scan from its end on (one further after an empty match).
re_scan(code, string, starts, pos) ==
    IF {s \in starts : s >= pos} = {} THEN <<>>
    ELSE LET start == Min({s \in starts : s >= pos})
             end == MatchHere(code, 1, string, start)
         IN  <<[start |-> start, end |-> end,
                group |-> SubSeq(string, start, end - 1)]>>
                 \o re_scan(code, string, starts, IF end = start THEN start + 1 ELSE end)

\* re.finditer(pattern, string, re.IGNORECASE): the non-overlapping matches
\* left to right, each with its span (start, and end the position after it)
\* and its matched string.
re_finditer(pattern, string) ==
    LET code == re_compile(pattern)
    IN  re_scan(code, string, MatchStarts(code, string), 1)

\* re.findall(pattern, string, re.IGNORECASE): the matched strings of
\* finditer (no pattern of the tables has a capturing group), each kept
\* here with the span it was found at.
re_findall(pattern, string) == re_finditer(pattern, string)

----------------------------------------------------------------------------
(* Keyword matching engine                                                 *)

\* Mutant of ExclusionResult: the exclusions weight is charged instead of
\* the score being forced to zero.
ExclusionResult_penalty ==
    [score |-> DictGet(KEYWORDS_EN, "exclusions").weight,
     all_matches |-> <<>>, category_scores |-> <<>>]

\* What calculate_heat_score returns when an exclusion pattern matches:
\* (0.0, [], {}). category_scores is a dict: a function on its keys.
ExclusionResult ==
    [score |-> 0, all_matches |-> <<>>, category_scores |-> <<>>]

\* Mutant of IsExcluded: re.match (anchored at the start of the text) in
\* place of re.search.
IsExcluded_anchored(keywords_dict, text_lower, language) ==
    /\ language = "en"
    /\ \E k \in 1..Len(DictGet(keywords_dict, "exclusions").keywords) :
          1 \in MatchStarts(
                  re_compile(DictGet(keywords_dict, "exclusions").keywords[k]),
                  text_lower)

\* The check for exclusions: some pattern of keywords_dict['exclusions']
\* is found in text_lower (English only).
IsExcluded(keywords_dict, text_lower, language) ==
    /\ language = "en"
    /\ \E k \in 1..Len(DictGet(keywords_dict, "exclusions").keywords) :
          re_search(DictGet(keywords_dict, "exclusions").keywords[k], text_lower)

\* One Match record of all_matches. keyword, category, weight and points
\* are the dict of the code; pattern and start are history fields (the
\* index of the pattern in its category and where the match starts in the
\* text), end the position after the match.
MatchRecord(m, category, config, k) ==
    [keyword |-> m.group, category |-> category, weight |-> config.weight,
     points |-> config.weight, pattern |-> k, start |-> m.start, end |-> m.end]

\* Mutant of ScorePattern: a matching pattern counts once however often it
\* occurs (points = weight, one Match record).
ScorePattern_once(acc, category, config, k, text_lower) ==
    LET matches == re_findall(config.keywords[k], text_lower)
    IN  IF matches # <<>>
        THEN [acc EXCEPT
                !.score = @ + config.weight,
                !.category_score = @ + config.weight,
                !.all_matches = @ \o <<MatchRecord(matches[1], category, config, k)>>,
                !.category_matches = @ \o <<matches[1].group>>]
        ELSE acc

\* Mutant of ScorePattern: new Match records are inserted at the front of
\* all_matches instead of appended.
ScorePattern_front(acc, category, config, k, text_lower) ==
    LET matches == re_findall(config.keywords[k], text_lower)
        match_count == Len(matches)
        points == match_count * config.weight
    IN  IF matches # <<>>
        THEN [acc EXCEPT
                !.score = @ + points,
                !.category_score = @ + points,
                !.all_matches = [n \in 1..match_count |->
                                    MatchRecord(matches[n], category, config, k)] \o @,
                !.category_matches = @ \o [n \in 1..match_count |-> matches[n].group]]
        ELSE acc

\* The body of `for pattern in config['keywords']` for the k-th pattern:
\* acc carries score, all_matches, category_matches and category_score.
ScorePattern(acc, category, config, k, text_lower) ==
    LET matches == re_findall(config.keywords[k], text_lower)
        match_count == Len(matches)
        points == match_count * config.weight
    IN  IF matches # <<>>
        THEN [acc EXCEPT
                !.score = @ + points,
                !.category_score = @ + points,
                !.all_matches = @ \o [n \in 1..match_count |->
                                        MatchRecord(matches[n], category, config, k)],
                !.category_matches = @ \o [n \in 1..match_count |-> matches[n].group]]
        ELSE acc

RECURSIVE ScorePatterns(_, _, _, _, _)
\* for pattern in config['keywords'], from the k-th pattern on
ScorePatterns(acc, category, config, k, text_lower) ==
    IF k > Len(config.keywords) THEN acc
    ELSE ScorePatterns(ScorePattern(acc, category, config, k, text_lower),
                       category, config, k + 1, text_lower)

\* Mutant of UniqueCount: len(category_matches), the set() forgotten.
UniqueCount_all(category_matches) == Len(category_matches)

\* len(set(category_matches))
UniqueCount(category_matches) ==
    Cardinality({category_matches[n] : n \in 1..Len(category_matches)})

\* category_scores[category] = {...}: the dict with one more key
DictSet(d, key, value) ==
    [x \in (DOMAIN d) \cup {key} |-> IF x = key THEN value ELSE d[x]]

\* The accumulators of the scoring loops before any match
NoMatches ==
    [score |-> 0, all_matches |-> <<>>, category_scores |-> <<>>,
     category_matches |-> <<>>, category_score |-> 0]

\* Mutant of ScoreCategory: a match whose span overlaps a match already
\* recorded for an earlier category is dropped (deduplication across
\* categories).
ScoreCategory_dedup(acc, category, config, text_lower) ==
    IF category = "exclusions" THEN acc
    ELSE LET done == ScorePatterns(NoMatches, category, config, 1, text_lower)
             fresh == SelectSeq(done.all_matches,
                        LAMBDA m : \A n \in 1..Len(acc.all_matches) :
                            \/ m.end <= acc.all_matches[n].start
                            \/ acc.all_matches[n].end <= m.start)
             kept == [n \in 1..Len(fresh) |-> fresh[n].keyword]
         IN  [score |-> acc.score + Len(fresh) * config.weight,
              all_matches |-> acc.all_matches \o fresh,
              category_scores |->
                  IF fresh # <<>>
                  THEN DictSet(acc.category_scores, category,
                               [matches |-> Len(kept),
                                unique_matches |-> UniqueCount(kept),
                                score |-> Len(fresh) * config.weight])
                  ELSE acc.category_scores,
              category_matches |-> kept,
              category_score |-> Len(fresh) * config.weight]

\* The body of `for category, config in keywords_dict.items()`. What the
\* pattern loop adds to score and all_matches is computed from NoMatches
\* and then added to acc (addition and concatenation are associative).
ScoreCategory(acc, category, config, text_lower) ==
    IF category = "exclusions" THEN acc
    ELSE LET done == ScorePatterns(NoMatches, category, config, 1, text_lower)
         IN  [score |-> acc.score + done.score,
              all_matches |-> acc.all_matches \o done.all_matches,
              category_scores |->
                  IF done.category_matches # <<>>
                  THEN DictSet(acc.category_scores, category,
                               [matches |-> Len(done.category_matches),
                                unique_matches |-> UniqueCount(done.category_matches),
                                score |-> done.category_score])
                  ELSE acc.category_scores,
              category_matches |-> done.category_matches,
              category_score |-> done.category_score]

RECURSIVE ScoreCategories(_, _, _, _)
\* for category, config in keywords_dict.items(), from the c-th item on
ScoreCategories(acc, keywords_dict, c, text_lower) ==
    IF c > Len(keywords_dict) THEN acc
    ELSE ScoreCategories(ScoreCategory(acc, keywords_dict[c].name,
                                       keywords_dict[c], text_lower),
                         keywords_dict, c + 1, text_lower)

\* keywords_dict = KEYWORDS_EN if language == 'en' else KEYWORDS_ES
SelectKeywords(language) == IF language = "en" THEN KEYWORDS_EN ELSE KEYWORDS_ES

calculate_heat_score(text, language) ==
    LET text_lower == lower(text)
        keywords_dict == SelectKeywords(language)
    IN  IF IsExcluded(keywords_dict, text_lower, language)
        THEN ExclusionResult
        ELSE LET acc == ScoreCategories(NoMatches, keywords_dict, 1, text_lower)
             IN  [score |-> acc.score, all_matches |-> acc.all_matches,
                  category_scores |-> acc.category_scores]

\* A number of the program as a float, in 1/ScoreScale steps
Float(n) == n * ScoreScale

\* Mutant of classify_relevance: the top threshold is exclusive.
classify_relevance_exclusive(score) ==
    IF score > Float(50) THEN "EXTREMELY_RELEVANT"
    ELSE IF score >= Float(20) THEN "HIGHLY_RELEVANT"
    ELSE IF score >= Float(10) THEN "MODERATELY_RELEVANT"
    ELSE IF score > Float(0) THEN "MINIMALLY_RELEVANT"
    ELSE "NOT_RELEVANT"

\* classify_relevance(score), score a float
classify_relevance(score) ==
    IF score >= Float(50) THEN "EXTREMELY_RELEVANT"
    ELSE IF score >= Float(20) THEN "HIGHLY_RELEVANT"
    ELSE IF score >= Float(10) THEN "MODERATELY_RELEVANT"
    ELSE IF score > Float(0) THEN "MINIMALLY_RELEVANT"
    ELSE "NOT_RELEVANT"

----------------------------------------------------------------------------
(* Inputs of a direct call of the engine                                   *)

\* Pieces of article text: mixed case, a double space and a line break, two
\* patterns of one category in one phrase and one of them twice, an
\* exclusion, a phrase two categories claim, a phrase that matches only
\* with a later "heat", and Spanish with an accented capital.
Vocabulary ==
    {"Heat stroke death. ", "heat  wave\n", "extreme heat wave, heat wave ",
     "heated argument ", "found dead ", "ola de calor, Insolación "}

RECURSIVE Concat(_, _)
Concat(parts, n) == IF n > Len(parts) THEN "" ELSE parts[n] \o Concat(parts, n + 1)

Texts ==
    {Concat(parts, 1) : parts \in UNION {[1..n -> Vocabulary] : n \in 0..MaxFragments}}

\* 'en', 'es', and a tag that is neither
Languages == {"en", "es", "fr"}

\* Float scores handed to classify_relevance: every whole score of a range
\* and the floats one step below and above each threshold
ScoreInputs ==
    {Float(n) : n \in -2..60} \cup
    {Float(n) + d : n \in {0, 10, 20, 50}, d \in {-1, 1}}

ScraperIdle ==
    /\ pc = "idle" /\ src = 0 /\ sec = 0 /\ all_links = <<>> /\ article_urls = <<>>
    /\ idx = 0 /\ stats = <<>> /\ articles = <<>> /\ keyword_matches = <<>>
    /\ scrape_sessions = <<>> /\ error_log = <<>> /\ last_insert_rowid = 0
    /\ netlog = <<>> /\ last = <<>> /\ web = <<>>

ScorerInit ==
    /\ \/ /\ mode = "score"
          /\ in_text \in Texts /\ in_language \in Languages
          /\ score_in = 0
       \/ /\ mode = "classify"
          /\ in_text = "" /\ in_language = ""
          /\ score_in \in ScoreInputs
    /\ result = NoMatches
    /\ label = ""
    /\ ScraperIdle

\* score, matches, categories = calculate_heat_score(full_text, language)
\* relevance = classify_relevance(score)
Score ==
    /\ mode = "score"
    /\ result' = calculate_heat_score(in_text, in_language)
    /\ label' = classify_relevance(Float(result'.score))
    /\ mode' = "scored"
    /\ UNCHANGED <<in_text, in_language, score_in>>
    /\ UNCHANGED scraperVars

\* classify_relevance(score) for a float of any origin
Classify ==
    /\ mode = "classify"
    /\ label' = classify_relevance(score_in)
    /\ mode' = "classified"
    /\ UNCHANGED <<in_text, in_language, result, score_in>>
    /\ UNCHANGED scraperVars

ScorerNext == Score \/ Classify

SpecScorer == ScorerInit /\ [][ScorerNext]_vars

----------------------------------------------------------------------------
(* Properties of the matching engine (SpecScorer)                          *)

Scored == mode = "scored"

\* The rule table the call in the current state scores with
Table == SelectKeywords(in_language)

\* The categories of a table that are scored (all but exclusions)
Scoring(d) == {c \in 1..Len(d) : d[c].name # "exclusions"}

\* The occurrences in the scored text of the k-th pattern of category c
Occurrences(d, c, k) == re_finditer(d[c].keywords[k], lower(in_text))

\* The scored text holds an occurrence of an English exclusion pattern
ContainsExclusion ==
    \E k \in 1..Len(DictGet(KEYWORDS_EN, "exclusions").keywords) :
        re_search(DictGet(KEYWORDS_EN, "exclusions").keywords[k], lower(in_text))

\* The call in the current state is an English call cut short by an exclusion
Excluded == in_language = "en" /\ ContainsExclusion

\* The scored text holds an occurrence of a scored pattern of table d
ContainsKeyword(d) ==
    \E c \in Scoring(d) : \E k \in 1..Len(d[c].keywords) : Occurrences(d, c, k) # <<>>

\* What the scored text holds: one record for every occurrence of every
\* scored pattern of table d, with the category's name and weight
Found(d) ==
    UNION {UNION {LET occ == Occurrences(d, c, k)
                  IN  {[keyword |-> occ[o].group,
                        category |-> d[c].name,
                        weight |-> d[c].weight,
                        points |-> d[c].weight,
                        pattern |-> k,
                        start |-> occ[o].start,
                        end |-> occ[o].end] : o \in 1..Len(occ)} :
                  k \in 1..Len(d[c].keywords)} :
           c \in Scoring(d)}

\* The Match records returned, as a set
Returned == {result.all_matches[n] : n \in 1..Len(result.all_matches)}

\* The positions of the Match records of category name
RecordsOf(name) ==
    {n \in 1..Len(result.all_matches) : result.all_matches[n].category = name}

RECURSIVE SumWeights(_, _)
SumWeights(ms, n) == IF n > Len(ms) THEN 0 ELSE ms[n].weight + SumWeights(ms, n + 1)

RECURSIVE SumScores(_, _)
SumScores(cs, keys) ==
    IF keys = {} THEN 0
    ELSE LET c == CHOOSE x \in keys : TRUE
         IN  cs[c].score + SumScores(cs, keys \ {c})

\* C1: an English text that holds an occurrence of an exclusion pattern
\* scores exactly (0, [], {}), whatever scored patterns it also holds.
C1_ExclusionOverrides ==
    (Scored /\ in_language = "en" /\ ContainsExclusion) =>
        /\ result.score = 0
        /\ result.all_matches = <<>>
        /\ DOMAIN result.category_scores = {}

\* C1 witness: an excluded English text that also holds scored keywords,
\* no exclusion standing at the start of the text.
C1_Witness ==
    /\ Scored /\ in_language = "en" /\ ContainsExclusion
    /\ ContainsKeyword(KEYWORDS_EN)
    /\ \A k \in 1..Len(DictGet(KEYWORDS_EN, "exclusions").keywords) :
          1 \notin MatchStarts(
                     re_compile(DictGet(KEYWORDS_EN, "exclusions").keywords[k]),
                     lower(in_text))
    /\ result.score = 0

Labels ==
    {"EXTREMELY_RELEVANT", "HIGHLY_RELEVANT", "MODERATELY_RELEVANT",
     "MINIMALLY_RELEVANT", "NOT_RELEVANT"}

\* C2: classify_relevance gives every score exactly one label, by inclusive
\* lower bounds: >= 50 EXTREMELY, [20, 50) HIGHLY, [10, 20) MODERATELY,
\* (0, 10) MINIMALLY, 0 NOT_RELEVANT.
C2_ClassifyBands ==
    mode = "classified" =>
        /\ label \in Labels
        /\ score_in >= 50 * ScoreScale => label = "EXTREMELY_RELEVANT"
        /\ (20 * ScoreScale <= score_in /\ score_in < 50 * ScoreScale)
              => label = "HIGHLY_RELEVANT"
        /\ (10 * ScoreScale <= score_in /\ score_in < 20 * ScoreScale)
              => label = "MODERATELY_RELEVANT"
        /\ (0 < score_in /\ score_in < 10 * ScoreScale)
              => label = "MINIMALLY_RELEVANT"
        /\ score_in = 0 => label = "NOT_RELEVANT"

\* C2 witness: the float one step below 50 is classified HIGHLY_RELEVANT.
C2_Witness ==
    /\ mode = "classified"
    /\ score_in = 50 * ScoreScale - 1
    /\ label = "HIGHLY_RELEVANT"

\* C3: without an exclusion, every occurrence of a scored pattern gives
\* exactly one Match record carrying the category's weight, and the score
\* is the sum of the records' weights and the sum of the breakdowns' scores.
C3_ScoreIsSumOfMatches ==
    (Scored /\ ~Excluded) =>
        LET found == Found(Table)
        IN  /\ Returned = found
            /\ Len(result.all_matches) = Cardinality(found)
            /\ result.score = SumWeights(result.all_matches, 1)
            /\ result.score = SumScores(result.category_scores,
                                        DOMAIN result.category_scores)

\* C3 witness: a pattern that occurs three times gave three records, each
\* adding the weight to the score.
C3_Witness ==
    /\ Scored /\ ~Excluded
    /\ \E c \in Scoring(Table) : \E k \in 1..Len(Table[c].keywords) :
          /\ Len(Occurrences(Table, c, k)) = 3
          /\ Cardinality({n \in RecordsOf(Table[c].name) :
                             result.all_matches[n].pattern = k}) = 3
          /\ result.score =
                3 * Table[c].weight
                  + SumWeights(SelectSeq(result.all_matches,
                        LAMBDA m : m.category # Table[c].name \/ m.pattern # k), 1)

\* C4: the score is never negative, for any text and language; a text with
\* no occurrence of a scored pattern (the empty text too) scores 0 with no
\* match and is classified NOT_RELEVANT.
C4_ScoreNeverNegative ==
    Scored =>
        /\ result.score >= 0
        /\ \/ /\ result.score = 0
              /\ result.all_matches = <<>>
              /\ label = "NOT_RELEVANT"
           \/ ContainsKeyword(Table)

\* C4 witness: an excluded English text (whose category weighs -100)
\* scored 0, not below.
C4_Witness ==
    /\ Scored /\ Excluded
    /\ DictGet(KEYWORDS_EN, "exclusions").weight < 0
    /\ result.score = 0
    /\ label = "NOT_RELEVANT"

\* What the specification asks of a call with an unsupported language tag
InvalidLanguage == [error |-> "InvalidLanguage"]

\* C5: a call whose language tag is neither 'en' nor 'es' fails with
\* InvalidLanguage and returns no score.
C5_UnsupportedLanguageFails ==
    (Scored /\ in_language \notin {"en", "es"}) => result = InvalidLanguage

\* The place of a Match record in the scoring loops: category, pattern,
\* start of the occurrence
CategoryIndex(d, name) == CHOOSE c \in 1..Len(d) : d[c].name = name
Earlier(d, a, b) ==
    LET ca == CategoryIndex(d, a.category)
        cb == CategoryIndex(d, b.category)
    IN  \/ ca < cb
        \/ ca = cb /\ a.pattern < b.pattern
        \/ ca = cb /\ a.pattern = b.pattern /\ a.start < b.start

\* C6: the match list is ordered by category order of the table, then
\* pattern order within the category, then position in the text.
C6_MatchOrder ==
    Scored =>
        \A i, j \in 1..Len(result.all_matches) :
            i < j => Earlier(Table, result.all_matches[i], result.all_matches[j])

\* C6 witness: a record of an earlier category stands before a record of a
\* later category found further left in the text; within one category a
\* record of an earlier pattern stands before one of a later pattern found
\* further left; and one pattern has two records.
C6_Witness ==
    /\ Scored
    /\ \E i, j \in 1..Len(result.all_matches) :
          /\ i < j
          /\ result.all_matches[i].category # result.all_matches[j].category
          /\ result.all_matches[i].start > result.all_matches[j].start
    /\ \E i, j \in 1..Len(result.all_matches) :
          /\ i < j
          /\ result.all_matches[i].category = result.all_matches[j].category
          /\ result.all_matches[i].pattern < result.all_matches[j].pattern
          /\ result.all_matches[i].start > result.all_matches[j].start
    /\ \E i, j \in 1..Len(result.all_matches) :
          /\ i < j
          /\ result.all_matches[i].category = result.all_matches[j].category
          /\ result.all_matches[i].pattern = result.all_matches[j].pattern

\* C7: the category map has a key exactly for the categories with a Match
\* record, never exclusions; matches counts the records, unique_matches the
\* distinct matched strings, score is matches times the category's weight.
C7_CategoryBreakdown ==
    Scored =>
        LET cs == result.category_scores
            ms == result.all_matches
        IN  /\ DOMAIN cs = {ms[n].category : n \in 1..Len(ms)}
            /\ "exclusions" \notin DOMAIN cs
            /\ \A name \in DOMAIN cs :
                  /\ cs[name].matches = Cardinality(RecordsOf(name))
                  /\ cs[name].unique_matches =
                        Cardinality({ms[n].keyword : n \in RecordsOf(name)})
                  /\ 1 <= cs[name].unique_matches
                  /\ cs[name].unique_matches <= cs[name].matches
                  /\ cs[name].score = cs[name].matches * DictGet(Table, name).weight

\* C7 witness: a category with more matches than distinct matched strings
\* and more than one distinct string, beside a second category.
C7_Witness ==
    /\ Scored
    /\ \E name \in DOMAIN result.category_scores :
          /\ result.category_scores[name].unique_matches >= 2
          /\ result.category_scores[name].unique_matches
                < result.category_scores[name].matches
    /\ Cardinality(DOMAIN result.category_scores) >= 2

\* Two spans of the text share a character
Overlap(a, b) == a.start < b.end /\ b.start < a.end

\* C9: when occurrences of patterns of two different categories overlap in
\* the text, each has its Match record and the score holds both weights.
C9_NoDedupAcrossCategories ==
    (Scored /\ ~Excluded) =>
        LET found == Found(Table)
            returned == Returned
        IN  \A a \in found :
                (\E b \in found : a.category # b.category /\ Overlap(a, b)) =>
                    /\ a \in returned
                    /\ \A b \in found :
                          (a.category # b.category /\ Overlap(a, b)) =>
                              result.score >= a.weight + b.weight

\* C9 witness: "heat stroke death" gave a heat_illness record and a
\* primary_death record that start at the same place, and 15 points.
C9_Witness ==
    /\ Scored /\ ~Excluded
    /\ \E i, j \in 1..Len(result.all_matches) :
          /\ result.all_matches[i].category = "primary_death"
          /\ result.all_matches[j].category = "heat_illness"
          /\ result.all_matches[i].start = result.all_matches[j].start
    /\ result.score = 15

----------------------------------------------------------------------------
(* The scraping workflow                                                   *)

NEWS_SOURCES ==
    << [name |-> "Imperial Valley Press", url |-> "https://www.ivpressonline.com",
        sections |-> <<"/news/local/", "/news/">>, language |-> "en",
        bias |-> "LOCAL-UNRATED"],
       [name |-> "Calexico Chronicle", url |-> "https://calexicochronicle.com",
        sections |-> <<"/">>, language |-> "en", bias |-> "LOCAL-UNRATED"],
       [name |-> "Holtville Tribune", url |-> "https://holtvilletribune.com",
        sections |-> <<"/category/regional-news/">>, language |-> "en",
        bias |-> "LOCAL-UNRATED"],
       [name |-> "The Desert Review", url |-> "https://www.thedesertreview.com",
        sections |-> <<"/news/local/">>, language |-> "en",
        bias |-> "LOCAL-UNRATED"],
       [name |-> "Adelante Valle", url |-> "https://www.ivpressonline.com",
        sections |-> <<"/adelante-valle/">>, language |-> "es",
        bias |-> "LOCAL-UNRATED"] >>

\* seconds between requests
REQUEST_DELAY == 12
\* per session
MAX_ARTICLES_PER_SOURCE == 50
\* total limit
MAX_ARTICLES_PER_DAY == 200

\* ---- the network (environment)

\* What a section page may hold, as the href of each <a href=...> in
\* document order: a relative article link in mixed case and again, a page
\* that is no article, an absolute article link, and a fragment link.
FrontPage ==
    <<"/News/heat-wave", "/about", "https://calexicochronicle.com/2024/07/council",
      "#top", "/News/heat-wave">>

\* A section page with no article link
PlainPage == <<"/about", "#top">>

Pages == {FrontPage, PlainPage}

\* What an article url may serve: a heat report in both languages, and a
\* report with an English exclusion ahead of English keywords.
Documents ==
    {[title |-> "Heat wave", text |-> "Heat stroke death. Golpe de calor"],
     [title |-> "Council", text |-> "heated argument over extreme heat"]}

NoTraffic == [served |-> 0, failures |-> 0]

Digits == <<"0", "1", "2", "3", "4", "5", "6", "7", "8", "9">>

RECURSIVE Decimal(_)
\* The decimal numeral of a natural number
Decimal(n) ==
    IF n < 10 THEN Digits[n + 1]
    ELSE Decimal(n \div 10) \o Digits[(n % 10) + 1]

\* A section page of a large site: the lead article, then LinksPerPage
\* stories of the section.
SectionPage(section) ==
    <<"/News/heat-wave">> \o
    [k \in 1..LinksPerPage |-> section \o "story-" \o Decimal(k)]

\* The networks a run of main may meet. A small site serves any page of
\* Pages for a section, at most MaxServed of them with article links, any
\* document of Documents for an article, and fails at most MaxFailures
\* requests. A large site serves SectionPage for every section and one
\* document for every article, and fails no request.
Networks ==
    {NoTraffic @@ [site |-> "small", document |-> [title |-> "", text |-> ""]]}
    \cup {NoTraffic @@ [site |-> "large", document |-> d] : d \in Documents}

\* The pages the network net may answer a request for a section with
PagesServed(net, section) ==
    IF net.site = "large" THEN {SectionPage(section)} ELSE Pages

\* The documents the network net may answer a request for an article with
DocumentsServed(net) ==
    IF net.site = "large" THEN {net.document} ELSE Documents

\* The network net may answer with one more page that has article links
MayServe(net) == net.site = "large" \/ net.served < MaxServed

\* The network net may fail one more request
MayFail(net) == net.site = "small" /\ net.failures < MaxFailures

\* ---- helpers of extract_article_links

StartsWith(s, prefix) == LooksAt(s, 1, prefix)

\* sub in s
Contains(s, sub) ==
    \E i \in 1..(Len(s) - Len(sub) + 1) : SubSeq(s, i, i + Len(sub) - 1) = sub

\* x in list
InList(x, list) == \E n \in 1..Len(list) : list[n] = x

Indicators == <<"article", "news", "/202", "story", "post">>

\* any(indicator in href.lower() for indicator in [...])
IsArticleLike(href) ==
    \E n \in 1..Len(Indicators) : Contains(lower(href), Indicators[n])

RECURSIVE CollectLinks(_, _, _, _)
\* for link in links, from the n-th link of the page on
CollectLinks(links, source, page, n) ==
    IF n > Len(page) THEN links
    ELSE LET href == page[n]
             full_url == IF StartsWith(href, "/") THEN source.url \o href ELSE href
             keep == /\ StartsWith(href, "/") \/ StartsWith(href, "http")
                     /\ IsArticleLike(href)
                     /\ ~InList(full_url, links)
         IN  IF keep
             THEN CollectLinks(Append(links, full_url), source, page, n + 1)
             ELSE CollectLinks(links, source, page, n + 1)

\* all_links[:max_links]
Truncate(list, max_links) == SubSeq(list, 1, Min({Len(list), max_links}))

\* ---- helpers of the database

\* hashlib.md5(url.encode()).hexdigest(): one digest for one url
get_url_hash(url) == "md5:" \o url

\* Mutant of check_if_scraped: the url is looked up without being hashed.
check_if_scraped_unhashed(url, rows) ==
    \E n \in 1..Len(rows) : rows[n].url_hash = url

\* SELECT id FROM articles WHERE url_hash = ? ... fetchone() is not None
check_if_scraped(url, rows) ==
    \E n \in 1..Len(rows) : rows[n].url_hash = get_url_hash(url)

\* The row INSERT OR IGNORE INTO articles would add. The columns authors,
\* published_date, scraped_date and keywords_matched (str(matches)) are left
\* out: nothing reads them.
ArticleRow(rows, article_data, source_name, source_bias, score, category) ==
    [id |-> Len(rows) + 1,
     source |-> source_name,
     source_bias |-> source_bias,
     language |-> article_data.language,
     url |-> article_data.url,
     url_hash |-> article_data.url_hash,
     title |-> article_data.title,
     text_content |-> article_data.text,
     heat_score |-> score,
     category |-> category]

\* url TEXT UNIQUE NOT NULL, url_hash TEXT UNIQUE: the insert is ignored
Conflicts(rows, row) ==
    \E n \in 1..Len(rows) : rows[n].url = row.url \/ rows[n].url_hash = row.url_hash

\* The rows INSERT INTO keyword_matches adds, one for each match
KeywordRows(rows, article_id, matches) ==
    [n \in 1..Len(matches) |->
        [id |-> Len(rows) + n,
         article_id |-> article_id,
         keyword |-> matches[n].keyword,
         keyword_type |-> matches[n].category,
         match_count |-> 1,
         weight |-> matches[n].weight]]

\* save_article: the tables and the connection after it, and what it returns
save_article(article_data, source_name, source_bias, score, matches, category) ==
    LET row == ArticleRow(articles, article_data, source_name, source_bias,
                          score, category)
        ignored == Conflicts(articles, row)
        article_id == IF ignored THEN last_insert_rowid ELSE row.id
        added == KeywordRows(keyword_matches, article_id, matches)
    IN  [articles |-> IF ignored THEN articles ELSE Append(articles, row),
         keyword_matches |-> keyword_matches \o added,
         last_insert_rowid |->
             IF added # <<>> THEN added[Len(added)].id ELSE article_id,
         article_id |-> article_id]

\* Mutant of ShouldSave: an article that scores 0 is saved as well.
ShouldSave_any(score) == score >= Float(0)

\* if score > 0
ShouldSave(score) == score > Float(0)

\* full_text = article_data['title'] + '\n\n' + article_data['text']
FullText(article_data) == article_data.title \o "\n\n" \o article_data.text

\* calculate_heat_score on the texts the network serves, computed once
ScoreMemo ==
    [full_text \in {FullText(d) : d \in Documents},
     language \in {NEWS_SOURCES[n].language : n \in 1..Len(NEWS_SOURCES)} |->
        calculate_heat_score(full_text, language)]

\* ---- events of the history netlog

Request(url) == [event |-> "request", url |-> url, seconds |-> 0]
Sleep(seconds) == [event |-> "sleep", url |-> "", seconds |-> seconds]

----------------------------------------------------------------------------
(* main and scrape_source, step by step                                    *)

Init ==
    /\ mode = "scrape"
    /\ in_text = "" /\ in_language = "" /\ score_in = 0
    /\ result = NoMatches /\ label = ""
    /\ pc = "main" /\ src = 0 /\ sec = 0
    /\ all_links = <<>> /\ article_urls = <<>> /\ idx = 0 /\ stats = <<>>
    /\ articles = <<>> /\ keyword_matches = <<>>
    /\ scrape_sessions = <<>> /\ error_log = <<>> /\ last_insert_rowid = 0
    /\ netlog = <<>>
    /\ last = [n |-> 0, url |-> "", language |-> "", full_text |-> "",
               score |-> 0, relevance |-> ""]
    /\ web \in Networks

\* The source scrape_source is working on
Source == NEWS_SOURCES[src]

database == <<articles, keyword_matches, scrape_sessions, error_log, last_insert_rowid>>

\* main: the next source of `for source in NEWS_SOURCES`; scrape_source
\* builds stats and calls extract_article_links. The wall-clock fields
\* start_time and end_time of stats are left out.
StartSource ==
    /\ pc = "main" /\ src < Len(NEWS_SOURCES)
    /\ src' = src + 1
    /\ stats' = [source |-> NEWS_SOURCES[src + 1].name, articles_found |-> 0,
                 articles_new |-> 0, articles_scraped |-> 0, errors |-> 0,
                 status |-> ""]
    /\ all_links' = <<>>
    /\ sec' = 1
    /\ pc' = "extract_article_links"
    /\ UNCHANGED <<article_urls, idx, netlog, last, web>>
    /\ UNCHANGED database
    /\ UNCHANGED scorerVars

\* extract_article_links: one section whose page arrives. The links are
\* filtered into all_links, then the loop sleeps.
FetchSection ==
    /\ pc = "extract_article_links" /\ sec <= Len(Source.sections)
    /\ \E page \in PagesServed(web, Source.sections[sec]) :
          LET url == Source.url \o Source.sections[sec]
              bears == CollectLinks(<<>>, Source, page, 1) # <<>>
          IN  /\ bears => MayServe(web)
              /\ all_links' = CollectLinks(all_links, Source, page, 1)
              /\ netlog' = netlog \o <<Request(url), Sleep(REQUEST_DELAY)>>
              /\ web' = [web EXCEPT !.served = IF bears THEN @ + 1 ELSE @]
    /\ sec' = sec + 1
    /\ UNCHANGED <<pc, src, article_urls, idx, stats, last>>
    /\ UNCHANGED database
    /\ UNCHANGED scorerVars

\* extract_article_links: one section whose request raises (no answer, or
\* an error status). The except clause logs and the loop goes on.
FetchSectionFails ==
    /\ pc = "extract_article_links" /\ sec <= Len(Source.sections)
    /\ MayFail(web)
    /\ netlog' = Append(netlog, Request(Source.url \o Source.sections[sec]))
    /\ web' = [web EXCEPT !.failures = @ + 1]
    /\ sec' = sec + 1
    /\ UNCHANGED <<pc, src, all_links, article_urls, idx, stats, last>>
    /\ UNCHANGED database
    /\ UNCHANGED scorerVars

\* extract_article_links returns all_links[:max_links]; scrape_source
\* counts them and enters its loop.
LinksExtracted ==
    /\ pc = "extract_article_links" /\ sec > Len(Source.sections)
    /\ article_urls' = Truncate(all_links, MAX_ARTICLES_PER_SOURCE)
    /\ stats' = [stats EXCEPT !.articles_found = Len(article_urls')]
    /\ idx' = 1
    /\ pc' = "scrape_source"
    /\ UNCHANGED <<src, sec, all_links, netlog, last, web>>
    /\ UNCHANGED database
    /\ UNCHANGED scorerVars

\* One round of `for i, url in enumerate(article_urls, 1)` for a url that
\* is in the database: continue.
ArticleAlreadyScraped ==
    /\ pc = "scrape_source" /\ idx <= Len(article_urls)
    /\ check_if_scraped(article_urls[idx], articles)
    /\ idx' = idx + 1
    /\ UNCHANGED <<pc, src, sec, all_links, article_urls, stats, netlog, last, web>>
    /\ UNCHANGED database
    /\ UNCHANGED scorerVars

\* One round for a new url whose download or parse raises:
\* scrape_article_newspaper4k returns None and the error is logged.
ArticleFails ==
    /\ pc = "scrape_source" /\ idx <= Len(article_urls)
    /\ ~check_if_scraped(article_urls[idx], articles)
    /\ MayFail(web)
    /\ netlog' = netlog \o <<Sleep(REQUEST_DELAY), Request(article_urls[idx])>>
    /\ web' = [web EXCEPT !.failures = @ + 1]
    /\ stats' = [stats EXCEPT !.articles_new = @ + 1, !.errors = @ + 1]
    /\ error_log' = Append(error_log,
                           [id |-> Len(error_log) + 1, source |-> Source.name,
                            url |-> article_urls[idx],
                            error_type |-> "SCRAPE_FAILED",
                            error_message |-> "Failed to extract article"])
    /\ last_insert_rowid' = Len(error_log) + 1
    /\ idx' = idx + 1
    /\ UNCHANGED <<pc, src, sec, all_links, article_urls, last>>
    /\ UNCHANGED <<articles, keyword_matches, scrape_sessions>>
    /\ UNCHANGED scorerVars

\* What scrape_article_newspaper4k returns for a url that serves document d
ArticleData(url, d, language) ==
    [url |-> url, url_hash |-> get_url_hash(url), title |-> d.title,
     text |-> d.text, language |-> language]

\* The rest of a round once calculate_heat_score has returned scored:
\* classify, and save if the score is above 0.
ClassifyAndSave(article_data, full_text, scored) ==
    LET score == Float(scored.score)
        relevance == classify_relevance(score)
        saved == save_article(article_data, Source.name, Source.bias,
                              score, scored.all_matches, relevance)
    IN  /\ last' = [n |-> last.n + 1, url |-> article_data.url,
                    language |-> Source.language, full_text |-> full_text,
                    score |-> score, relevance |-> relevance]
        /\ IF ShouldSave(score)
           THEN /\ articles' = saved.articles
                /\ keyword_matches' = saved.keyword_matches
                /\ last_insert_rowid' = saved.last_insert_rowid
                /\ stats' = [stats EXCEPT
                                !.articles_new = @ + 1,
                                !.articles_scraped =
                                    IF saved.article_id > 0 THEN @ + 1 ELSE @]
           ELSE /\ stats' = [stats EXCEPT !.articles_new = @ + 1]
                /\ UNCHANGED <<articles, keyword_matches, last_insert_rowid>>

\* One round for a new url that is downloaded: the article is scored,
\* classified and, if the score is above 0, saved.
ArticleScraped ==
    /\ pc = "scrape_source" /\ idx <= Len(article_urls)
    /\ ~check_if_scraped(article_urls[idx], articles)
    /\ \E d \in DocumentsServed(web) :
          ClassifyAndSave(ArticleData(article_urls[idx], d, Source.language),
                          FullText(d),
                          ScoreMemo[FullText(d), Source.language])
    /\ netlog' = netlog \o <<Sleep(REQUEST_DELAY), Request(article_urls[idx])>>
    /\ idx' = idx + 1
    /\ UNCHANGED <<pc, src, sec, all_links, article_urls, web>>
    /\ UNCHANGED <<scrape_sessions, error_log>>
    /\ UNCHANGED scorerVars

\* The loop is over: status COMPLETED, the session is logged and
\* scrape_source returns to main. The except clause of scrape_source
\* (status FAILED) takes an error of the database, which is not modelled.
SessionLogged ==
    /\ pc = "scrape_source" /\ idx > Len(article_urls)
    /\ stats' = [stats EXCEPT !.status = "COMPLETED"]
    /\ scrape_sessions' = Append(scrape_sessions,
                                 [id |-> Len(scrape_sessions) + 1] @@ stats')
    /\ last_insert_rowid' = Len(scrape_sessions) + 1
    /\ pc' = "main"
    /\ UNCHANGED <<src, sec, all_links, article_urls, idx, netlog, last, web>>
    /\ UNCHANGED <<articles, keyword_matches, error_log>>
    /\ UNCHANGED scorerVars

\* main after the last source: the report is written and the connection
\* closed.
Finish ==
    /\ pc = "main" /\ src = Len(NEWS_SOURCES)
    /\ pc' = "done"
    /\ UNCHANGED <<src, sec, all_links, article_urls, idx, stats, netlog, last, web>>
    /\ UNCHANGED database
    /\ UNCHANGED scorerVars

Next ==
    \/ StartSource
    \/ FetchSection
    \/ FetchSectionFails
    \/ LinksExtracted
    \/ ArticleAlreadyScraped
    \/ ArticleFails
    \/ ArticleScraped
    \/ SessionLogged
    \/ Finish

Spec == Init /\ [][Next]_vars

----------------------------------------------------------------------------
(* Properties of the scraping workflow (Spec)                              *)

\* text holds an occurrence of an English exclusion pattern
HasExclusion(text) ==
    \E k \in 1..Len(DictGet(KEYWORDS_EN, "exclusions").keywords) :
        re_search(DictGet(KEYWORDS_EN, "exclusions").keywords[k], lower(text))

\* text holds an occurrence of a scored English pattern
HasKeyword(text) ==
    \E c \in Scoring(KEYWORDS_EN) : \E k \in 1..Len(KEYWORDS_EN[c].keywords) :
        re_search(KEYWORDS_EN[c].keywords[k], lower(text))

\* The served texts with an English exclusion, and those of them that hold
\* a scored English pattern as well
ExcludedTexts == {FullText(d) : d \in {x \in Documents : HasExclusion(FullText(x))}}
ExcludedKeywordTexts == {t \in ExcludedTexts : HasKeyword(t)}

\* Every row of articles has a score above 0 and a relevant category.
RowsAreRelevant ==
    \A n \in 1..Len(articles) :
        /\ articles[n].heat_score > Float(0)
        /\ articles[n].category # "NOT_RELEVANT"

\* A step that scores an article at 0 inserts nothing; so does a step that
\* scores an English article with an exclusion, which scores 0.
ZeroScoreInsertsNothing ==
    /\ last'.n = last.n + 1
    /\ \/ last'.score = Float(0)
       \/ last'.language = "en" /\ last'.full_text \in ExcludedTexts
    => /\ last'.score = Float(0)
       /\ UNCHANGED <<articles, keyword_matches>>

\* C8: an article is persisted only when its score is above 0. In every
\* reachable state every row of articles has heat_score > 0 and a category
\* other than NOT_RELEVANT, and a step of scrape_source that scores an
\* article at 0 (every English article with an exclusion does) leaves
\* articles and keyword_matches as they were.
C8_PersistedOnlyWhenRelevant ==
    []RowsAreRelevant /\ [][ZeroScoreInsertsNothing]_vars

\* C8 witness: an English article with an exclusion ahead of scored
\* keywords has just been scored at 0 and dropped, in a run that has saved
\* another article with its keyword matches.
C8_Witness ==
    /\ last.n > 0 /\ last.score = Float(0) /\ last.language = "en"
    /\ last.full_text \in ExcludedKeywordTexts
    /\ articles # <<>> /\ keyword_matches # <<>>
    /\ \A n \in 1..Len(articles) : articles[n].url # last.url

\* C10: rate limiting. The event that follows an outgoing request, a section
\* fetch or an article download, is a sleep of REQUEST_DELAY seconds: no two
\* requests go out without a sleep between them, also after a section fetch
\* that raised and from one source to the next.
C10_SleepBetweenRequests ==
    \A i \in 1..(Len(netlog) - 1) :
        netlog[i].event = "request" =>
            /\ netlog[i + 1].event = "sleep"
            /\ netlog[i + 1].seconds >= REQUEST_DELAY

\* The articles scrape_article_newspaper4k has downloaded and parsed since
\* main began, over every call of scrape_source
ArticlesDownloaded == last.n

\* C11: MAX_ARTICLES_PER_DAY is a total limit. Over one run of main the
\* articles downloaded, summed over every call of scrape_source, never
\* exceed MAX_ARTICLES_PER_DAY.
C11_DailyLimit == ArticlesDownloaded <= MAX_ARTICLES_PER_DAY

\* The hash of url is in the articles table
HashPresent(url) ==
    \E n \in 1..Len(articles) : articles[n].url_hash = get_url_hash(url)

\* scrape_source is at a url of its loop whose hash is in the table
AtScrapedUrl ==
    /\ pc = "scrape_source" /\ idx <= Len(article_urls)
    /\ HashPresent(article_urls[idx])

\* No two rows of articles share a url or a url_hash, and every row of
\* keyword_matches refers to a row of articles.
OneRowPerUrl ==
    /\ \A a \in 1..Len(articles) : \A b \in (a + 1)..Len(articles) :
          /\ articles[a].url # articles[b].url
          /\ articles[a].url_hash # articles[b].url_hash
          /\ articles[a].id # articles[b].id
    /\ \A k \in 1..Len(keyword_matches) :
          keyword_matches[k].article_id \in 1..Len(articles)

\* From a url whose hash is in the table the loop moves on to the next url:
\* no request, no sleep, no count, no row.
ScrapedUrlIsSkipped ==
    AtScrapedUrl =>
        /\ idx' = idx + 1
        /\ UNCHANGED <<netlog, stats, last, articles, keyword_matches, error_log>>

\* The rows a step adds to keyword_matches come with one new row of
\* articles, the one of the url just downloaded, and carry its id.
MatchesComeWithTheirArticle ==
    keyword_matches' # keyword_matches =>
        /\ Len(articles') = Len(articles) + 1
        /\ SubSeq(articles', 1, Len(articles)) = articles
        /\ articles'[Len(articles')].url = last'.url
        /\ Len(keyword_matches') > Len(keyword_matches)
        /\ SubSeq(keyword_matches', 1, Len(keyword_matches)) = keyword_matches
        /\ \A k \in (Len(keyword_matches) + 1)..Len(keyword_matches') :
              keyword_matches'[k].article_id = articles'[Len(articles')].id

\* C12: URL deduplication. A url whose hash is in the articles table is
\* skipped by scrape_source with no download, no sleep and no count in
\* articles_new; in every reachable state articles has at most one row for a
\* url and every keyword_matches row refers to the articles row that was
\* inserted in the same step.
C12_UrlDeduplication ==
    []OneRowPerUrl /\ [][ScrapedUrlIsSkipped /\ MatchesComeWithTheirArticle]_vars

\* C12 witness: scrape_source has just passed a url that an earlier source
\* saved with its keyword matches, and has not counted it as new.
C12_Witness ==
    /\ pc = "scrape_source" /\ idx > 1
    /\ \E n \in 1..Len(articles) :
          /\ articles[n].url = article_urls[idx - 1]
          /\ articles[n].source # Source.name
          /\ \E k \in 1..Len(keyword_matches) :
                keyword_matches[k].article_id = articles[n].id
    /\ stats.articles_new < idx - 1

====
